---- MODULE Spec2Model ----
(***************************************************************************)
(* A model of the moles documentation agent: the coordinator loop of       *)
(* Agent.run (plan -> execute -> reflect -> generate), the Executor's      *)
(* bounded ReAct loop, the Planner's createPlan / adjustPlan, the          *)
(* Reflector's verdict parsing and the MemoryManager the tools write to.   *)
(*                                                                         *)
(* The program is single threaded; pc is the position of its one thread.   *)
(* The LLM gateway, the file system and the site generator are the         *)
(* environment: what they answer is chosen with \E from bounded sets.      *)
(*                                                                         *)
(*   Spec        the run as Agent.run sees it, any gateway answers; the    *)
(*               conversations of the steps are left out of the state      *)
(*   FairSpec    Spec with a thread that keeps running                     *)
(*   StepSpec    the run with the conversation of every step               *)
(*   MemorySpec  a MemoryManager under any sequence of method calls        *)
(*   ParseSpec   createPlan's and reflect's parsing of one wrapped answer  *)
(***************************************************************************)
EXTENDS Integers, Sequences, FiniteSets, TLC

(***************************************************************************)
(* Program constants                                                       *)
(***************************************************************************)
maxIterations == 10

maxReactIterations == 20

MAX_STEPS == 8

MAX_ADJUSTMENT_STEPS == 3

(***************************************************************************)
(* Bounds of the model                                                     *)
(***************************************************************************)
\* longest step list the planning model answers with (one more than MAX_STEPS)
MaxRawSteps == 9

\* longest missingAreas list a reflection answers with
MaxMissing == 5

\* longest gateway text, in tokens, of a planning or reflection answer
MaxContentLen == 3

\* the run's counters (iterations and the invocation counts) stop counting here
MaxCount == 12

\* the turns of the run's first step in which the Executor's gateway answers freely in
\* StepSpec; in every later turn it repeats one tool call or stops
MaxFreeTurns == 2

\* most documentation sections, and most addUnderstanding calls, of a MemorySpec behaviour
MaxSections == 4

MaxUnderstanding == 2

\* the phase history stops growing here: two phase values for each counted iteration
MaxVisited == 2 * MaxCount + 1

VARIABLES
    phase,            \* AgentState.phase
    plan,             \* AgentState.plan (NoPlan is null)
    iterations,       \* AgentState.iterations
    memory,           \* MemoryManager.memory
    pc,               \* where the thread is: run, count, execute, react, returned, aborted
    error,            \* which phase's failure left Agent.run, "none" while none has
    reactIterations,  \* executeStep's local iterations
    response,         \* content of the gateway answer the running planPhase/reflectPhase got
    reflection,       \* the ReflectionResult the running reflectPhase got
    invoked,          \* how often each collaborator was called; for the running step, its
                      \* gateway calls (chat) and whether each answer carried a tool call
    messages,         \* executeStep's local messages, the conversation of the step
    summary,          \* what the latest call of MemoryManager.getSummary returned
    stateDir,         \* what StateManager has written to .moles: plan.md and memory.json
    visited           \* the values AgentState.phase has taken, in order

vars == <<phase, plan, iterations, memory, pc, error, reactIterations, response,
          reflection, invoked, messages, summary, stateDir, visited>>

Min(a, b) == IF a < b THEN a ELSE b

\* n + 1, the counter staying at MaxCount once it is there
Inc(n) == IF n < MaxCount THEN n + 1 ELSE n

(***************************************************************************)
(* Gateway text.  A text is a sequence of tokens:                          *)
(*   "{" "}"  the brace characters                                         *)
(*   "body"   the member text of the JSON object the model was asked for   *)
(*   "cut"    member text that breaks off                                  *)
(*   "txt"    prose without braces                                         *)
(* A content is a text together with the object its "body" spells out.     *)
(***************************************************************************)
Tokens == {"txt", "{", "}", "body", "cut"}

NoContent == [null |-> TRUE]

Content(text, data) == [text |-> text, data |-> data]

\* JavaScript truthiness of response.content: null and "" are falsy
HasContent(c) == c # NoContent /\ c.text # <<>>

Texts(n) == UNION {[1..k -> Tokens] : k \in 0..n}

FirstIndexOf(text, tok) ==
    IF \E i \in 1..Len(text) : text[i] = tok
    THEN CHOOSE i \in 1..Len(text) : text[i] = tok /\ \A j \in 1..(i - 1) : text[j] # tok
    ELSE 0

LastIndexOf(text, tok) ==
    IF \E i \in 1..Len(text) : text[i] = tok
    THEN CHOOSE i \in 1..Len(text) : text[i] = tok /\ \A j \in (i + 1)..Len(text) : text[j] # tok
    ELSE 0

\* content.match(/\{[\s\S]*\}/): from the first "{" to the last "}", <<>> for null
jsonMatch(text) ==
    LET i == FirstIndexOf(text, "{")
        j == LastIndexOf(text, "}")
    IN  IF i > 0 /\ j > i THEN SubSeq(text, i, j) ELSE <<>>

\* whether JSON.parse accepts the text: one object, empty or with its members
JSONparses(text) == text = <<"{", "}">> \/ text = <<"{", "body", "}">>

(***************************************************************************)
(* JSON objects.  An object is a record that carries, in fields, the keys  *)
(* it really has; a key outside fields reads as undefined.                 *)
(***************************************************************************)
Undefined == "undefined"

Has(obj, key) == key \in obj.fields

PlanKeys == {"overview", "steps", "focusAreas"}

VerdictKeys == {"isComplete", "completeness", "missingAreas", "suggestions", "shouldContinue"}

\* what JSON.parse makes of "{}" where a plan / a verdict was asked for
EmptyPlanObject ==
    [fields |-> {}, overview |-> Undefined, steps |-> <<>>, focusAreas |-> <<>>]

EmptyVerdictObject ==
    [fields |-> {}, isComplete |-> FALSE, completeness |-> 0, missingAreas |-> <<>>,
     suggestions |-> <<>>, shouldContinue |-> FALSE]

\* JSON.parse of a text it accepts: the object spelled out by "body", or {}
JSONparse(text, data, empty) == IF \E i \in 1..Len(text) : text[i] = "body" THEN data ELSE empty

(***************************************************************************)
(* Planner (src/unnamed/part_001)                                          *)
(***************************************************************************)
NoPlan == [null |-> TRUE]

Return(v) == [ok |-> TRUE, value |-> v]

\* mutant of Throw: createPlan falls back to an empty plan instead of failing
Throw_FallbackPlan ==
    Return([fields |-> {"overview", "steps", "focusAreas"}, overview |-> "", focusAreas |-> <<>>,
            steps |-> <<>>, currentStepIndex |-> 0])

\* throw new Error(...): createPlan fails
Throw == [ok |-> FALSE]

\* mutant of PendingStep: a status the model supplied is kept
PendingStep_KeepsSupplied(step) ==
    IF step.status = "absent" THEN [step EXCEPT !.status = "pending"] ELSE step

\* steps.map(step => ({...step, status: "pending"}))
PendingStep(step) == [step EXCEPT !.status = "pending"]

\* mutant of LimitSteps: the limit is not enforced
LimitSteps_NoLimit(steps) == steps

\* if (steps.length > MAX_STEPS) steps = steps.slice(0, MAX_STEPS)
LimitSteps(steps) == IF Len(steps) > MAX_STEPS THEN SubSeq(steps, 1, MAX_STEPS) ELSE steps

\* createPlan from the gateway's answer on: Throw, or Return(plan)
createPlan(content) ==
    IF ~HasContent(content) THEN Throw
    ELSE LET jsonMatched == jsonMatch(content.text) IN
         IF jsonMatched = <<>> \/ ~JSONparses(jsonMatched) THEN Throw
         ELSE LET planData == JSONparse(jsonMatched, content.data, EmptyPlanObject) IN
              IF ~Has(planData, "steps") THEN Throw
              ELSE LET steps == [i \in 1..Len(planData.steps) |-> PendingStep(planData.steps[i])]
                   IN  Return([fields |-> planData.fields,
                               overview |-> planData.overview,
                               focusAreas |-> planData.focusAreas,
                               steps |-> LimitSteps(steps),
                               currentStepIndex |-> 0])

\* mutant of LimitAreas: the slice is forgotten
LimitAreas_NoSlice(missingAreas) == missingAreas

\* reflection.missingAreas.slice(0, MAX_ADJUSTMENT_STEPS)
LimitAreas(missingAreas) == SubSeq(missingAreas, 1, Min(Len(missingAreas), MAX_ADJUSTMENT_STEPS))

\* mutant of NewStep: the appended step is created completed
NewStep_Completed(steps, area, index) ==
    [id |-> Len(steps) + index + 1,
     action |-> <<"Analyze", area>>,
     target |-> area,
     reason |-> "Identified as missing in reflection",
     status |-> "completed"]

\* the step adjustPlan makes of the index-th (from 0) missing area
NewStep(steps, area, index) ==
    [id |-> Len(steps) + index + 1,
     action |-> <<"Analyze", area>>,
     target |-> area,
     reason |-> "Identified as missing in reflection",
     status |-> "pending"]

\* mutant of firstPendingIndex: the cursor goes back to the first step
firstPendingIndex_FirstStep(steps) == IF steps = <<>> THEN -1 ELSE 0

\* plan.steps.findIndex(s => s.status === "pending"), from 0, -1 when there is none
firstPendingIndex(steps) ==
    IF \E i \in 1..Len(steps) : steps[i].status = "pending"
    THEN (CHOOSE i \in 1..Len(steps) :
              steps[i].status = "pending" /\ \A j \in 1..(i - 1) : steps[j].status # "pending") - 1
    ELSE -1

\* mutant of adjustPlan: with no pending step the cursor is reset to the first step
adjustPlan_Rewinds(p, missing) ==
    LET missingAreas == LimitAreas(missing)
        newSteps == [k \in 1..Len(missingAreas) |-> NewStep(p.steps, missingAreas[k], k - 1)]
        steps == p.steps \o newSteps
        first == firstPendingIndex(steps)
    IN  [p EXCEPT !.steps = steps,
                  !.currentStepIndex = IF first >= 0 THEN first ELSE 0]

adjustPlan(p, missing) ==
    LET missingAreas == LimitAreas(missing)
        newSteps == [k \in 1..Len(missingAreas) |-> NewStep(p.steps, missingAreas[k], k - 1)]
        steps == p.steps \o newSteps
        first == firstPendingIndex(steps)
    IN  [p EXCEPT !.steps = steps,
                  !.currentStepIndex = IF first >= 0 THEN first ELSE p.currentStepIndex]

(***************************************************************************)
(* Reflector (src/unnamed/part_000)                                        *)
(***************************************************************************)
NoReflection == [null |-> TRUE]

DefaultVerdict(suggestion) ==
    [fields |-> VerdictKeys, isComplete |-> TRUE, completeness |-> 70, missingAreas |-> <<>>,
     suggestions |-> <<suggestion>>, shouldContinue |-> FALSE]

\* mutant of UnparsedVerdict: a text that cannot be parsed asks for another round
UnparsedVerdict_Continue ==
    [DefaultVerdict("Could not parse reflection") EXCEPT !.isComplete = FALSE,
                                                         !.shouldContinue = TRUE]

\* the verdict kept when the text cannot be parsed (the catch branch)
UnparsedVerdict == DefaultVerdict("Could not parse reflection, proceeding with generation")

\* reflect from the gateway's answer on
reflect(content) ==
    IF ~HasContent(content)
    THEN DefaultVerdict("Empty reflection response, proceeding with generation")
    ELSE LET jsonMatched == jsonMatch(content.text) IN
         IF jsonMatched = <<>> \/ ~JSONparses(jsonMatched)
         THEN UnparsedVerdict
         ELSE JSONparse(jsonMatched, content.data, EmptyVerdictObject)

\* JavaScript truthiness of reflection.shouldContinue
ShouldContinue(r) == Has(r, "shouldContinue") /\ r.shouldContinue

(***************************************************************************)
(* MemoryManager (src/src/agent/memory.ts)                                 *)
(***************************************************************************)
EmptyMemory ==
    [codebaseUnderstanding |-> <<>>,
     analyzedFiles |-> <<>>,
     documentSections |-> <<>>,
     insights |-> <<>>,
     directoryStructure |-> <<>>]

\* mutant of setDirectoryStructure: the structure is not stored
setDirectoryStructure_Skipped(m, structure) == m

setDirectoryStructure(m, structure) == [m EXCEPT !.directoryStructure = <<structure>>]

\* codebaseUnderstanding is kept as the list of the contents joined by "\n\n"
addUnderstanding(m, content) == [m EXCEPT !.codebaseUnderstanding = Append(@, content)]

\* analyzedFiles.findIndex(f => f.path === path), from 1, 0 when there is none
existingIndex(files, path) ==
    IF \E i \in 1..Len(files) : files[i].path = path
    THEN CHOOSE i \in 1..Len(files) : files[i].path = path /\ \A j \in 1..(i - 1) : files[j].path # path
    ELSE 0

\* mutant of markFileAnalyzed: the file is pushed whether its path is there or not
markFileAnalyzed_Pushes(m, file) == [m EXCEPT !.analyzedFiles = Append(@, file)]

markFileAnalyzed(m, file) ==
    LET at == existingIndex(m.analyzedFiles, file.path) IN
    IF at > 0
    THEN [m EXCEPT !.analyzedFiles[at] = file]
    ELSE [m EXCEPT !.analyzedFiles = Append(@, file)]

\* mutant of addDocSection: order counts the sections of every category
addDocSection_CountsAll(m, section) ==
    [m EXCEPT !.documentSections =
         Append(@, [id |-> <<section.category, Len(m.documentSections)>>,
                    title |-> section.title, content |-> section.content,
                    category |-> section.category, order |-> Len(m.documentSections)])]

\* mutant of addDocSection: the id is made of the category and the order
addDocSection_IdByOrder(m, section) ==
    LET order == Cardinality({i \in 1..Len(m.documentSections) :
                                  m.documentSections[i].category = section.category})
    IN  [m EXCEPT !.documentSections =
             Append(@, [id |-> <<section.category, order>>, title |-> section.title,
                        content |-> section.content, category |-> section.category,
                        order |-> order])]

\* the id is `${category}-${documentSections.length}`, kept as the pair
addDocSection(m, section) ==
    LET id == <<section.category, Len(m.documentSections)>>
        order == Cardinality({i \in 1..Len(m.documentSections) :
                                  m.documentSections[i].category = section.category})
    IN  [m EXCEPT !.documentSections =
             Append(@, [id |-> id, title |-> section.title, content |-> section.content,
                        category |-> section.category, order |-> order])]

\* mutant of addInsight: the insight is recorded as understanding as well
addInsight_AsUnderstanding(m, insight) ==
    IF \E i \in 1..Len(m.insights) : m.insights[i] = insight
    THEN m
    ELSE [m EXCEPT !.insights = Append(@, insight),
                   !.codebaseUnderstanding = Append(@, insight)]

\* mutant of addInsight: the insight is pushed whether it is there or not
addInsight_Pushes(m, insight) == [m EXCEPT !.insights = Append(@, insight)]

\* mutant of addInsight: the list is replaced by the new insight
addInsight_Replaces(m, insight) == [m EXCEPT !.insights = <<insight>>]

addInsight(m, insight) ==
    IF \E i \in 1..Len(m.insights) : m.insights[i] = insight
    THEN m
    ELSE [m EXCEPT !.insights = Append(@, insight)]

\* one part of the summary for each field that is not empty, in the order of the pushes;
\* parts.join("\n\n") keeps that order
getSummary(m) ==
    (IF m.directoryStructure # <<>>
     THEN <<[directoryStructure |-> m.directoryStructure]>> ELSE <<>>)
    \o (IF m.codebaseUnderstanding # <<>>
        THEN <<[understanding |-> m.codebaseUnderstanding]>> ELSE <<>>)
    \o (IF Len(m.analyzedFiles) > 0
        THEN <<[analyzedFiles |-> Len(m.analyzedFiles),
                fileList |-> [i \in 1..Len(m.analyzedFiles) |->
                                 <<m.analyzedFiles[i].path, m.analyzedFiles[i].summary>>]]>>
        ELSE <<>>)
    \o (IF Len(m.insights) > 0 THEN <<[keyInsights |-> m.insights]>> ELSE <<>>)
    \o (IF Len(m.documentSections) > 0
        THEN <<[generatedSections |-> [i \in 1..Len(m.documentSections) |->
                                          <<m.documentSections[i].category,
                                            m.documentSections[i].title>>]]>>
        ELSE <<>>)

(***************************************************************************)
(* ToolRegistry (src/src/tools/index.ts): what a call does to the memory   *)
(***************************************************************************)
ToolNames == {"list_files", "read_file", "search_code", "write_doc", "add_insight",
              "mark_file_analyzed"}

ToolCall(id, name, arguments) == [id |-> id, name |-> name, arguments |-> arguments]

NoArgs == [path |-> "", summary |-> "", insight |-> "", title |-> "", category |-> ""]

\* JSON.parse("null"): the arguments of a call whose argument text is null
NullArgs == [null |-> TRUE]

\* the arguments of a call whose argument text is not JSON: JSON.parse of it throws
InvalidArgs == [invalid |-> TRUE]

\* LLMClient.chat throws: it decodes the argument text of every tool call of the answer
chatThrows(resp) ==
    \E i \in 1..Len(resp.toolCalls) : resp.toolCalls[i].arguments = InvalidArgs

\* the files of the target directory
Files == {"a.ts", "b.ts"}

Success(data) == [success |-> TRUE, data |-> data, error |-> <<>>]

Failure(message) == [success |-> FALSE, data |-> "", error |-> message]

\* tool.execute throws: every tool reads a property of params, and params is null
toolThrows(call) == call.arguments = NullArgs

\* ToolRegistry.execute: the ToolResult it returns
toolResult(call) ==
    IF call.name \notin ToolNames THEN Failure(<<"Unknown tool: ", call.name>>)
    ELSE IF toolThrows(call) THEN Failure(<<"Cannot read properties of null">>)
    ELSE CASE call.name = "read_file" ->
                  IF call.arguments.path \in Files
                  THEN Success("content") ELSE Failure(<<"ENOENT: no such file">>)
           [] call.name = "list_files" -> Success("files")
           [] call.name = "search_code" -> Success("matches")
           [] call.name = "write_doc" -> Success("saved to memory")
           [] call.name = "add_insight" -> Success("Insight recorded")
           [] call.name = "mark_file_analyzed" -> Success("marked as analyzed")

\* mutant of toolExecute: read_file marks the file it has read as analyzed
toolExecute_ReadMarks(m, call) ==
    IF call.name \notin ToolNames \/ toolThrows(call) THEN m ELSE
    CASE call.name = "write_doc" ->
             addDocSection(m, [title |-> call.arguments.title, content |-> "md",
                               category |-> call.arguments.category])
      [] call.name = "add_insight" -> addInsight(m, call.arguments.insight)
      [] call.name = "mark_file_analyzed" ->
             markFileAnalyzed(m, [path |-> call.arguments.path,
                                  summary |-> call.arguments.summary])
      [] call.name = "read_file" ->
             markFileAnalyzed(m, [path |-> call.arguments.path, summary |-> ""])
      [] OTHER -> m

\* ToolRegistry.execute: what the call does to the memory
toolExecute(m, call) ==
    IF call.name \notin ToolNames \/ toolThrows(call) THEN m ELSE
    CASE call.name = "write_doc" ->
             addDocSection(m, [title |-> call.arguments.title, content |-> "md",
                               category |-> call.arguments.category])
      [] call.name = "add_insight" -> addInsight(m, call.arguments.insight)
      [] call.name = "mark_file_analyzed" ->
             markFileAnalyzed(m, [path |-> call.arguments.path,
                                  summary |-> call.arguments.summary])
      [] OTHER -> m

\* result.success ? JSON.stringify(result.data, null, 2) : `Error: ${result.error}`
observation(result) ==
    IF result.success THEN <<"JSON", result.data>> ELSE <<"Error: ">> \o result.error

\* the progress line of write_doc and read_file reads a property of toolCall.arguments:
\* it throws when the arguments are null
progressThrows(call) == call.name \in {"write_doc", "read_file"} /\ call.arguments = NullArgs

\* the first call of the turn whose progress line throws, 0 when there is none
firstThrower(calls) ==
    IF \E i \in 1..Len(calls) : progressThrows(calls[i])
    THEN CHOOSE i \in 1..Len(calls) :
             progressThrows(calls[i]) /\ \A j \in 1..(i - 1) : ~progressThrows(calls[j])
    ELSE 0

\* an LLMMessage; tool_call_id "" and tool_calls <<>> where the message has none
Message(role, content, tool_call_id, tool_calls) ==
    [role |-> role, content |-> content, tool_call_id |-> tool_call_id,
     tool_calls |-> tool_calls]

\* buildStepPrompt: the first message of a step's conversation
stepPrompt(m, step) ==
    Message("user", [memory |-> getSummary(m), action |-> step.action,
                     target |-> step.target, reason |-> step.reason], "", <<>>)

\* mutant of pushed: argument text that is not JSON becomes an Error observation
pushed_ErrorObservation(resp) ==
    LET calls == resp.toolCalls
        thrower == firstThrower(calls)
        observed == IF thrower > 0 THEN thrower - 1 ELSE Len(calls)
    IN  IF chatThrows(resp)
        THEN <<Message("assistant", resp.content, "", calls)>>
                 \o [i \in 1..Len(calls) |->
                        Message("tool", [observation |-> <<"Error: ", "Unexpected token">>],
                                calls[i].id, <<>>)]
        ELSE IF Len(calls) > 0
        THEN <<Message("assistant", resp.content, "", calls)>>
                 \o [i \in 1..observed |->
                        Message("tool", [observation |-> observation(toolResult(calls[i]))],
                                calls[i].id, <<>>)]
        ELSE IF HasContent(resp.content)
             THEN <<Message("assistant", resp.content, "", <<>>)>>
             ELSE <<>>

\* the messages one pass of executeStep's loop pushes
pushed(resp) ==
    LET calls == resp.toolCalls
        thrower == firstThrower(calls)
        observed == IF thrower > 0 THEN thrower - 1 ELSE Len(calls)
    IN  IF chatThrows(resp) THEN <<>>
        ELSE IF Len(calls) > 0
        THEN <<Message("assistant", resp.content, "", calls)>>
                 \o [i \in 1..observed |->
                        Message("tool", [observation |-> observation(toolResult(calls[i]))],
                                calls[i].id, <<>>)]
        ELSE IF HasContent(resp.content)
             THEN <<Message("assistant", resp.content, "", <<>>)>>
             ELSE <<>>

\* for (const toolCall of response.toolCalls): the calls run in order
RECURSIVE runToolCalls(_, _)
runToolCalls(m, calls) ==
    IF calls = <<>> THEN m ELSE runToolCalls(toolExecute(m, Head(calls)), Tail(calls))

(***************************************************************************)
(* What the environment may answer                                         *)
(***************************************************************************)
AreaNames == <<"auth", "cli", "config", "routes", "store", "types", "utils", "views">>

MissingLists == {SubSeq(AreaNames, 1, n) : n \in {0, 1, MaxMissing}}

\* a step list as the planning model writes it; status is what it supplied, if anything
RawSteps(ids, supplied) ==
    [i \in 1..Len(ids) |->
        [id |-> ids[i], action |-> <<"Explore">>, target |-> "src", reason |-> "core module",
         status |-> supplied]]

RawStepLists ==
    {RawSteps([i \in 1..n |-> i], "absent") : n \in {0, 1, 2, MaxRawSteps}}
        \cup {RawSteps(<<2>>, "absent"), RawSteps(<<1, 1>>, "absent"), RawSteps(<<1>>, "completed")}

PlanObjects ==
    {[fields |-> PlanKeys, overview |-> "X", steps |-> raw, focusAreas |-> <<"core">>] :
        raw \in RawStepLists}
        \cup {[EmptyPlanObject EXCEPT !.fields = {"overview"}, !.overview = "X"],
              [fields |-> {"overview", "steps"}, overview |-> "X",
               steps |-> RawSteps(<<1>>, "absent"), focusAreas |-> <<>>]}

VerdictObjects ==
    {[fields |-> VerdictKeys, isComplete |-> c, completeness |-> IF c THEN 90 ELSE 40,
      missingAreas |-> ms, suggestions |-> <<"more examples">>, shouldContinue |-> k] :
        c \in BOOLEAN, ms \in MissingLists, k \in BOOLEAN}
        \cup {[EmptyVerdictObject EXCEPT !.fields = {"shouldContinue"}, !.shouldContinue = TRUE],
              [EmptyVerdictObject EXCEPT !.fields = {"isComplete"}, !.isComplete = TRUE]}

\* whether the text holds "{", "body", "}" in this order: only then can its object be read
SpellsObject(text) ==
    \E i, j, k \in 1..Len(text) :
        i < j /\ j < k /\ text[i] = "{" /\ text[j] = "body" /\ text[k] = "}"

\* the gateway contents of at most n tokens whose "body" spells an object of objects
Contents(n, objects, empty) ==
    {NoContent}
        \cup {Content(text, empty) : text \in {t \in Texts(n) : ~SpellsObject(t)}}
        \cup {Content(text, data) : text \in {t \in Texts(n) : SpellsObject(t)}, data \in objects}

PlanContents == Contents(MaxContentLen, PlanObjects, EmptyPlanObject)

ReflectContents == Contents(MaxContentLen, VerdictObjects, EmptyVerdictObject)

\* an Executor turn of the gateway
Response(content, toolCalls, finishReason) ==
    [content |-> content, toolCalls |-> toolCalls, finishReason |-> finishReason]

Thought == Content(<<"txt">>, EmptyPlanObject)

StepToolCalls ==
    {ToolCall("call_1", "read_file", [NoArgs EXCEPT !.path = "a.ts"]),
     ToolCall("call_1", "no_such_tool", NoArgs),
     ToolCall("call_1", "add_insight", [NoArgs EXCEPT !.insight = "uses plugins"])}

StepResponses ==
    {Response(c, <<>>, f) : c \in {NoContent, Thought}, f \in {"stop", "length"}}
        \cup {Response(c, <<t>>, f) : c \in {NoContent, Thought}, t \in StepToolCalls,
                                      f \in {"tool_calls", "stop"}}

(***************************************************************************)
(* The state after construction (Agent's and MemoryManager's constructors) *)
(***************************************************************************)
NoResponse == [none |-> TRUE]

\* neither plan.md nor memory.json has been written in this run
NoStateFiles == [plan |-> [none |-> TRUE], memory |-> [none |-> TRUE]]

\* formatPlanAsMarkdown: the overview, the focus areas and every step with its status
formatPlanAsMarkdown(p) == [overview |-> p.overview, focusAreas |-> p.focusAreas, steps |-> p.steps]

\* StateManager.savePlan: plan.md is rewritten
savePlan(dir, p) == [dir EXCEPT !.plan = formatPlanAsMarkdown(p)]

\* mutant of saveMemory: the snapshot is not written
saveMemory_Skipped(dir, m) == dir

\* StateManager.saveMemory: memory.json is rewritten with JSON.stringify(memory)
saveMemory(dir, m) == [dir EXCEPT !.memory = m]

\* no caller has asked for the summary yet
NoSummary == <<[none |-> TRUE]>>

NotInvoked ==
    [createPlan |-> 0, execute |-> 0, reflect |-> 0, generate |-> 0, chat |-> 0,
     toolsEveryTurn |-> TRUE]

Init ==
    /\ phase = "planning"
    /\ plan = NoPlan
    /\ iterations = 0
    /\ memory = EmptyMemory
    /\ pc = "run"
    /\ error = "none"
    /\ reactIterations = 0
    /\ response = NoResponse
    /\ reflection = NoReflection
    /\ invoked = NotInvoked
    /\ messages = <<>>
    /\ summary = NoSummary
    /\ stateDir = NoStateFiles
    /\ visited = <<"planning">>

\* the phase history once this.state.phase holds p
Visit(p) ==
    IF p = visited[Len(visited)] \/ Len(visited) >= MaxVisited THEN visited ELSE Append(visited, p)

\* mutant of Abort: the phase handler swallows the error and run goes on
Abort_Swallowed(what) ==
    /\ pc' = "count"
    /\ error' = what

\* an error leaves Agent.run: cli.ts prints it and exits the process
Abort(what) ==
    /\ pc' = "aborted"
    /\ error' = what

(***************************************************************************)
(* Agent.planPhase                                                         *)
(***************************************************************************)
\* mutant of planPhase: the plan createPlan returned is not stored in the state
planPhase_DropsPlan(content) ==
    /\ pc = "run"
    /\ phase = "planning"
    /\ invoked' = [invoked EXCEPT !.createPlan = Inc(@)]
    /\ response' = content
    /\ LET created == createPlan(content) IN
       IF ~created.ok
       THEN /\ Abort("planning")
            /\ UNCHANGED <<phase, plan, memory, stateDir>>
       ELSE /\ plan' = plan
            /\ memory' = setDirectoryStructure(memory, created.value.overview)
            /\ IF Has(created.value, "focusAreas")
               THEN /\ stateDir' = savePlan(stateDir, created.value)
                    /\ phase' = "executing"
                    /\ pc' = "count"
                    /\ error' = error
               ELSE \* savePlan: plan.focusAreas.map of undefined throws
                    /\ Abort("planning")
                    /\ UNCHANGED <<phase, stateDir>>
    /\ UNCHANGED <<iterations, reactIterations, reflection>>
    /\ visited' = Visit(phase')
    /\ UNCHANGED <<messages, summary>>

planPhase(content) ==
    /\ pc = "run"
    /\ phase = "planning"
    /\ invoked' = [invoked EXCEPT !.createPlan = Inc(@)]
    /\ response' = content
    /\ LET created == createPlan(content) IN
       IF ~created.ok
       THEN /\ Abort("planning")
            /\ UNCHANGED <<phase, plan, memory, stateDir>>
       ELSE /\ plan' = created.value
            /\ memory' = setDirectoryStructure(memory, created.value.overview)
            /\ IF Has(created.value, "focusAreas")
               THEN /\ stateDir' = savePlan(stateDir, created.value)
                    /\ phase' = "executing"
                    /\ pc' = "count"
                    /\ error' = error
               ELSE \* savePlan: plan.focusAreas.map of undefined throws
                    /\ Abort("planning")
                    /\ UNCHANGED <<phase, stateDir>>
    /\ UNCHANGED <<iterations, reactIterations, reflection>>
    /\ visited' = Visit(phase')
    /\ UNCHANGED <<messages, summary>>

\* the Planner's gateway call throws
planPhaseThrows ==
    /\ pc = "run"
    /\ phase = "planning"
    /\ invoked' = [invoked EXCEPT !.createPlan = Inc(@)]
    /\ Abort("planning")
    /\ UNCHANGED <<phase, plan, iterations, memory, reactIterations, response, reflection>>
    /\ visited' = Visit(phase')
    /\ UNCHANGED <<messages, summary, stateDir>>

(***************************************************************************)
(* Agent.executePhase and Executor.execute                                 *)
(***************************************************************************)
executePhase ==
    /\ pc = "run"
    /\ phase = "executing"
    /\ IF plan = NoPlan
       THEN /\ Abort("execution")
            /\ invoked' = invoked
       ELSE /\ pc' = "execute"
            /\ error' = error
            /\ invoked' = [invoked EXCEPT !.execute = Inc(@)]
    /\ UNCHANGED <<phase, plan, iterations, memory, reactIterations, response, reflection>>
    /\ visited' = Visit(phase')
    /\ UNCHANGED <<messages, summary, stateDir>>

\* the step at the cursor
CurrentStep == plan.steps[plan.currentStepIndex + 1]

\* one pass of execute's while loop up to the call of executeStep, or its exit;
\* executeStep's locals of the step before are gone
executeLoop ==
    /\ pc = "execute"
    /\ reactIterations' = 0
    /\ invoked' = [invoked EXCEPT !.chat = 0, !.toolsEveryTurn = TRUE]
    /\ IF plan.currentStepIndex < Len(plan.steps)
       THEN IF CurrentStep.status # "pending"
            THEN /\ plan' = [plan EXCEPT !.currentStepIndex = @ + 1]
                 /\ UNCHANGED <<phase, pc, stateDir>>
            ELSE /\ plan' = [plan EXCEPT !.steps[plan.currentStepIndex + 1].status = "in_progress"]
                 /\ stateDir' = savePlan(stateDir, plan')
                 /\ pc' = "react"
                 /\ phase' = phase
       ELSE /\ phase' = "reflecting"
            /\ pc' = "count"
            /\ UNCHANGED <<plan, stateDir>>
    /\ visited' = Visit(phase')
    /\ UNCHANGED <<iterations, memory, error, response, reflection, summary>>

\* whether this pass of execute's loop calls executeStep
startsStep ==
    /\ plan.currentStepIndex < Len(plan.steps)
    /\ CurrentStep.status = "pending"

\* Executor.execute as Agent.run sees it: the step's conversation is left out
execute ==
    /\ executeLoop
    /\ UNCHANGED messages

\* Executor.execute with the conversation executeStep opens; the one of the step before
\* is gone with executeStep's other locals
executeConversing ==
    /\ executeLoop
    /\ messages' = IF startsStep THEN <<stepPrompt(memory, CurrentStep)>> ELSE <<>>

\* mutant of reactLoopContinues: the bound is off by one
reactLoopContinues_OffByOne(n) == n <= maxReactIterations

\* while (iterations < this.maxReactIterations)
reactLoopContinues(n) == n < maxReactIterations

\* mutant of shouldStop: the tool calls of the turn are not looked at
shouldStop_OnFinishReason(resp) == resp.finishReason = "stop"

\* if (response.finishReason === "stop" && response.toolCalls.length === 0) break
shouldStop(resp) == resp.finishReason = "stop" /\ Len(resp.toolCalls) = 0

\* mutant of completeStep: a step whose loop ended is marked skipped
completeStep_Skipped(p) ==
    [p EXCEPT !.steps[p.currentStepIndex + 1].status = "skipped",
              !.currentStepIndex = @ + 1]

\* mutant of completeStep: the cursor is left on the completed step
completeStep_KeepsCursor(p) ==
    [p EXCEPT !.steps[p.currentStepIndex + 1].status = "completed"]

\* mutant of completeStep: the step is left pending behind the cursor
completeStep_Reopens(p) ==
    [p EXCEPT !.steps[p.currentStepIndex + 1].status = "pending",
              !.currentStepIndex = @ + 1]

\* step.status = "completed"; plan.currentStepIndex++
completeStep(p) ==
    [p EXCEPT !.steps[p.currentStepIndex + 1].status = "completed",
              !.currentStepIndex = @ + 1]

\* one pass of executeStep's while loop; when the loop ends, the rest of execute's pass
executeStepLoop(resp) ==
    /\ pc = "react"
    /\ reactLoopContinues(reactIterations)
    /\ reactIterations' = reactIterations + 1
    /\ LET thrower == firstThrower(resp.toolCalls) IN
       IF chatThrows(resp)
       THEN \* the SyntaxError of JSON.parse leaves chat: executeStep gets no answer
            /\ invoked' = [invoked EXCEPT !.chat = @ + 1]
            /\ Abort("execution")
            /\ UNCHANGED <<memory, plan, stateDir>>
       ELSE IF thrower > 0
       THEN \* the tools up to the thrower have run; the TypeError leaves the step
            /\ invoked' = [invoked EXCEPT !.chat = @ + 1,
                                          !.toolsEveryTurn = @ /\ Len(resp.toolCalls) > 0]
            /\ memory' = runToolCalls(memory, SubSeq(resp.toolCalls, 1, thrower))
            /\ Abort("execution")
            /\ UNCHANGED <<plan, stateDir>>
       ELSE /\ invoked' = [invoked EXCEPT !.chat = @ + 1,
                                          !.toolsEveryTurn = @ /\ Len(resp.toolCalls) > 0]
            /\ memory' = runToolCalls(memory, resp.toolCalls)
            /\ error' = error
            /\ IF shouldStop(resp) \/ ~reactLoopContinues(reactIterations')
               THEN \* back in execute: the step is completed, both files are saved,
                    \* then the cursor moves on
                    /\ plan' = completeStep(plan)
                    /\ stateDir' = saveMemory(savePlan(stateDir, plan'), memory')
                    /\ pc' = "execute"
               ELSE /\ pc' = "react"
                    /\ UNCHANGED <<plan, stateDir>>
    /\ UNCHANGED <<phase, iterations, response, reflection, summary, visited>>

\* executeStep as Agent.run sees it: the step's conversation is left out
executeStep(resp) ==
    /\ executeStepLoop(resp)
    /\ UNCHANGED messages

\* executeStep with the conversation it keeps
executeStepConversing(resp) ==
    /\ executeStepLoop(resp)
    /\ messages' = messages \o pushed(resp)

\* mutant of executeStepThrows: execute marks the failed step completed and moves on
executeStepThrows_Completes ==
    /\ pc = "react"
    /\ reactLoopContinues(reactIterations)
    /\ reactIterations' = reactIterations + 1
    /\ invoked' = [invoked EXCEPT !.chat = @ + 1]
    /\ Abort("execution")
    /\ plan' = completeStep(plan)
    /\ UNCHANGED <<phase, iterations, memory, response, reflection>>
    /\ visited' = Visit(phase')
    /\ UNCHANGED <<messages, summary, stateDir>>

\* the Executor's gateway call throws: nothing catches it before cli.ts
executeStepThrows ==
    /\ pc = "react"
    /\ reactLoopContinues(reactIterations)
    /\ reactIterations' = reactIterations + 1
    /\ invoked' = [invoked EXCEPT !.chat = @ + 1]
    /\ Abort("execution")
    /\ UNCHANGED <<phase, plan, iterations, memory, response, reflection>>
    /\ visited' = Visit(phase')
    /\ UNCHANGED <<messages, summary, stateDir>>

(***************************************************************************)
(* Agent.reflectPhase                                                      *)
(***************************************************************************)
reflectPhase(content) ==
    /\ pc = "run"
    /\ phase = "reflecting"
    /\ invoked' = [invoked EXCEPT !.reflect = Inc(@)]
    /\ response' = content
    /\ LET verdict == reflect(content) IN
       /\ reflection' = verdict
       /\ IF ShouldContinue(verdict) /\ plan # NoPlan
          THEN IF Has(verdict, "missingAreas")
               THEN /\ plan' = adjustPlan(plan, verdict.missingAreas)
                    /\ phase' = "executing"
                    /\ pc' = "count"
                    /\ error' = error
               ELSE \* reflection.missingAreas.join of undefined throws
                    /\ Abort("reflection")
                    /\ UNCHANGED <<phase, plan>>
          ELSE /\ phase' = "generating"
               /\ pc' = "count"
               /\ UNCHANGED <<plan, error>>
    /\ UNCHANGED <<iterations, memory, reactIterations>>
    /\ visited' = Visit(phase')
    /\ UNCHANGED <<messages, summary, stateDir>>

\* the Reflector's gateway call throws
reflectPhaseThrows ==
    /\ pc = "run"
    /\ phase = "reflecting"
    /\ invoked' = [invoked EXCEPT !.reflect = Inc(@)]
    /\ Abort("reflection")
    /\ UNCHANGED <<phase, plan, iterations, memory, reactIterations, response, reflection>>
    /\ visited' = Visit(phase')
    /\ UNCHANGED <<messages, summary, stateDir>>

(***************************************************************************)
(* Agent.generatePhase                                                     *)
(***************************************************************************)
\* mutant of generatePhase: the memory is reset once the site is generated
generatePhase_ResetsMemory ==
    /\ pc = "run"
    /\ phase = "generating"
    /\ invoked' = [invoked EXCEPT !.generate = Inc(@)]
    /\ phase' = "done"
    /\ pc' = "count"
    /\ memory' = EmptyMemory
    /\ UNCHANGED <<plan, iterations, error, reactIterations, response, reflection>>
    /\ visited' = Visit(phase')
    /\ UNCHANGED <<messages, summary, stateDir>>

generatePhase ==
    /\ pc = "run"
    /\ phase = "generating"
    /\ invoked' = [invoked EXCEPT !.generate = Inc(@)]
    /\ phase' = "done"
    /\ pc' = "count"
    /\ UNCHANGED <<plan, iterations, memory, error, reactIterations, response, reflection>>
    /\ visited' = Visit(phase')
    /\ UNCHANGED <<messages, summary, stateDir>>

\* Generator.generate throws
generatePhaseThrows ==
    /\ pc = "run"
    /\ phase = "generating"
    /\ invoked' = [invoked EXCEPT !.generate = Inc(@)]
    /\ Abort("generation")
    /\ UNCHANGED <<phase, plan, iterations, memory, reactIterations, response, reflection>>
    /\ visited' = Visit(phase')
    /\ UNCHANGED <<messages, summary, stateDir>>

(***************************************************************************)
(* Agent.run: the end of a pass of its while loop, and the loop's exit     *)
(***************************************************************************)
\* mutant of phaseAfter: the jump to generating comes one iteration early
phaseAfter_Early(n, current) == IF n >= maxIterations - 1 THEN "generating" ELSE current

\* if (this.state.iterations >= this.state.maxIterations) this.state.phase = "generating"
phaseAfter(n, current) == IF n >= maxIterations THEN "generating" ELSE current

countIteration ==
    /\ pc = "count"
    /\ iterations' = Inc(iterations)
    /\ phase' = phaseAfter(iterations', phase)
    /\ pc' = "run"
    /\ response' = NoResponse
    /\ reflection' = NoReflection
    /\ UNCHANGED <<plan, memory, error, reactIterations, invoked>>
    /\ visited' = Visit(phase')
    /\ UNCHANGED <<messages, summary, stateDir>>

\* while (this.state.phase !== "done")
run ==
    /\ pc = "run"
    /\ phase = "done"
    /\ pc' = "returned"
    /\ UNCHANGED <<phase, plan, iterations, memory, error, reactIterations, response,
                   reflection, invoked>>
    /\ visited' = Visit(phase')
    /\ UNCHANGED <<messages, summary, stateDir>>

Next ==
    \/ \E content \in PlanContents : planPhase(content)
    \/ planPhaseThrows
    \/ executePhase
    \/ execute
    \/ \E resp \in StepResponses : executeStep(resp)
    \/ executeStepThrows
    \/ \E content \in ReflectContents : reflectPhase(content)
    \/ reflectPhaseThrows
    \/ generatePhase
    \/ generatePhaseThrows
    \/ countIteration
    \/ run

Spec == Init /\ [][Next]_vars

\* the thread keeps running: every await is answered, by a value or by an error
FairSpec == Spec /\ WF_vars(Next)

(***************************************************************************)
(* StepSpec: the run with every step's conversation kept.  The Planner and *)
(* the Reflector answer well-formed JSON, the Reflector asks at most once  *)
(* for more, and the Executor's gateway answers freely in the first        *)
(* MaxFreeTurns turns of the first step.                                   *)
(***************************************************************************)
JSONText == <<"{", "body", "}">>

StepPlanContents ==
    {Content(JSONText, [fields |-> PlanKeys, overview |-> "X",
                        steps |-> RawSteps([i \in 1..n |-> i], "absent"),
                        focusAreas |-> <<"core">>]) : n \in 1..2}

StepReflectContents ==
    {Content(JSONText, [fields |-> VerdictKeys, isComplete |-> ~k,
                        completeness |-> IF k THEN 40 ELSE 90,
                        missingAreas |-> IF k THEN <<"auth">> ELSE <<>>,
                        suggestions |-> <<>>, shouldContinue |-> k]) : k \in BOOLEAN}

ConversingToolCalls(id) ==
    {ToolCall(id, "read_file", [NoArgs EXCEPT !.path = "a.ts"]),
     ToolCall(id, "read_file", [NoArgs EXCEPT !.path = "gone.ts"]),
     ToolCall(id, "read_file", NullArgs),
     ToolCall(id, "list_files", [NoArgs EXCEPT !.path = "src"]),
     ToolCall(id, "search_code", [NoArgs EXCEPT !.path = "src"]),
     ToolCall(id, "no_such_tool", NoArgs),
     ToolCall(id, "write_doc", [NoArgs EXCEPT !.title = "Overview", !.category = "overview"]),
     ToolCall(id, "write_doc", NullArgs),
     ToolCall(id, "add_insight", [NoArgs EXCEPT !.insight = "uses plugins"]),
     ToolCall(id, "add_insight", NullArgs),
     ToolCall(id, "add_insight", InvalidArgs),
     ToolCall(id, "mark_file_analyzed", [NoArgs EXCEPT !.path = "a.ts", !.summary = "cli"]),
     ToolCall(id, "mark_file_analyzed", [NoArgs EXCEPT !.path = "a.ts", !.summary = "entry"])}

\* turns with two tool calls: a failing call before a writing one, and the reverse; a
\* writing call before one whose argument text is not JSON
TwoCallTurns ==
    {<<ToolCall("call_1", "no_such_tool", NoArgs),
       ToolCall("call_2", "add_insight", [NoArgs EXCEPT !.insight = "uses plugins"])>>,
     <<ToolCall("call_1", "write_doc", [NoArgs EXCEPT !.title = "API", !.category = "api"]),
       ToolCall("call_2", "read_file", [NoArgs EXCEPT !.path = "gone.ts"])>>,
     <<ToolCall("call_1", "add_insight", [NoArgs EXCEPT !.insight = "no tests"]),
       ToolCall("call_2", "write_doc", NullArgs)>>,
     <<ToolCall("call_1", "add_insight", [NoArgs EXCEPT !.insight = "no tests"]),
       ToolCall("call_2", "read_file", InvalidArgs)>>}

FreeResponses ==
    {Response(c, <<>>, f) : c \in {NoContent, Thought}, f \in {"stop", "length"}}
        \cup {Response(Thought, <<t>>, "tool_calls") : t \in ConversingToolCalls("call_1")}
        \cup {Response(NoContent, <<t>>, "stop") : t \in ConversingToolCalls("call_1")}
        \cup {Response(NoContent, calls, "tool_calls") : calls \in TwoCallTurns}

SteadyResponses ==
    {Response(Thought, <<ToolCall("call_1", "add_insight",
                                  [NoArgs EXCEPT !.insight = "has a cli"])>>,
              "tool_calls"),
     Response(Thought, <<>>, "stop")}

\* what the Executor's gateway may answer in this turn
ConversingResponses ==
    IF pc = "react" /\ plan.currentStepIndex = 0 /\ reactIterations < MaxFreeTurns
    THEN FreeResponses ELSE SteadyResponses

StepNext ==
    \/ \E content \in StepPlanContents : planPhase(content)
    \/ executePhase
    \/ executeConversing
    \/ \E resp \in ConversingResponses : executeStepConversing(resp)
    \/ \E content \in StepReflectContents :
           /\ ShouldContinue(reflect(content)) => invoked.reflect = 0
           /\ reflectPhase(content)
    \/ generatePhase
    \/ countIteration
    \/ run

StepSpec == Init /\ [][StepNext]_vars

(***************************************************************************)
(* MemorySpec: a fresh MemoryManager under any sequence of calls of its    *)
(* methods.  The caller drops the summary it holds when it writes.         *)
(***************************************************************************)
InsightTexts == {"uses plugins", "no tests"}

SectionInputs ==
    {[title |-> "Overview", content |-> "md", category |-> c] : c \in {"api", "module"}}

FileInputs == {[path |-> f, summary |-> t] : f \in Files, t \in {"cli", "entry"}}

\* the variables a MemoryManager call leaves alone
aside == <<phase, plan, iterations, pc, error, reactIterations, response, reflection,
           invoked, messages, stateDir, visited>>

callSetDirectoryStructure(structure) ==
    /\ memory' = setDirectoryStructure(memory, structure)
    /\ summary' = NoSummary
    /\ UNCHANGED aside

callAddUnderstanding(content) ==
    /\ Len(memory.codebaseUnderstanding) < MaxUnderstanding
    /\ memory' = addUnderstanding(memory, content)
    /\ summary' = NoSummary
    /\ UNCHANGED aside

callMarkFileAnalyzed(file) ==
    /\ memory' = markFileAnalyzed(memory, file)
    /\ summary' = NoSummary
    /\ UNCHANGED aside

callAddDocSection(section) ==
    /\ Len(memory.documentSections) < MaxSections
    /\ memory' = addDocSection(memory, section)
    /\ summary' = NoSummary
    /\ UNCHANGED aside

callAddInsight(insight) ==
    /\ memory' = addInsight(memory, insight)
    /\ summary' = NoSummary
    /\ UNCHANGED aside

\* mutant of callGetSummary: building the summary empties the insights
callGetSummary_Drains ==
    /\ summary' = getSummary(memory)
    /\ memory' = [memory EXCEPT !.insights = <<>>]
    /\ UNCHANGED aside

callGetSummary ==
    /\ summary' = getSummary(memory)
    /\ memory' = memory
    /\ UNCHANGED aside

MemoryNext ==
    \/ callSetDirectoryStructure("X")
    \/ callAddUnderstanding("a plugin host")
    \/ \E file \in FileInputs : callMarkFileAnalyzed(file)
    \/ \E section \in SectionInputs : callAddDocSection(section)
    \/ \E insight \in InsightTexts : callAddInsight(insight)
    \/ callGetSummary

MemorySpec == Init /\ [][MemoryNext]_vars

(***************************************************************************)
(* ParseSpec: the parsing of createPlan and reflect applied to one gateway *)
(* answer: a JSON object with wrapper text before and after it, the        *)
(* wrapper text holding prose and braces.                                  *)
(***************************************************************************)
\* longest wrapper text, in tokens, on either side of the object
MaxWrapperLen == 2

WrapperTokens == {"txt", "{", "}"}

Wrappers == UNION {[1..k -> WrapperTokens] : k \in 0..MaxWrapperLen}

\* the object the Planner's prompt asks for
WrappedPlan ==
    [fields |-> PlanKeys, overview |-> "X", steps |-> RawSteps(<<1, 2>>, "absent"),
     focusAreas |-> <<"core">>]

\* the object the Reflector's prompt asks for
WrappedVerdict ==
    [fields |-> VerdictKeys, isComplete |-> FALSE, completeness |-> 40,
     missingAreas |-> <<"auth">>, suggestions |-> <<"more examples">>, shouldContinue |-> TRUE]

WrappedContents ==
    {Content(before \o JSONText \o after, data) :
        before \in Wrappers, after \in Wrappers, data \in {WrappedPlan, WrappedVerdict}}

ParseInit ==
    /\ phase = "planning"
    /\ plan = NoPlan
    /\ iterations = 0
    /\ memory = EmptyMemory
    /\ pc = "run"
    /\ error = "none"
    /\ reactIterations = 0
    /\ response \in WrappedContents
    /\ reflection = NoReflection
    /\ invoked = NotInvoked
    /\ messages = <<>>
    /\ summary = NoSummary
    /\ stateDir = NoStateFiles
    /\ visited = <<"planning">>

\* createPlan from the gateway's answer on, the answer being response
callCreatePlan ==
    /\ invoked.createPlan = 0
    /\ invoked' = [invoked EXCEPT !.createPlan = 1]
    /\ LET created == createPlan(response) IN
       IF created.ok
       THEN /\ plan' = created.value
            /\ error' = error
       ELSE /\ plan' = plan
            /\ error' = "planning"
    /\ UNCHANGED <<phase, iterations, memory, pc, reactIterations, response, reflection,
                   messages, summary, stateDir, visited>>

\* reflect from the gateway's answer on, the answer being response
callReflect ==
    /\ invoked.reflect = 0
    /\ invoked' = [invoked EXCEPT !.reflect = 1]
    /\ reflection' = reflect(response)
    /\ UNCHANGED <<phase, plan, iterations, memory, pc, error, reactIterations, response,
                   messages, summary, stateDir, visited>>

ParseNext ==
    \/ callCreatePlan
    \/ callReflect

ParseSpec == ParseInit /\ [][ParseNext]_vars

(***************************************************************************)
(* Claims                                                                  *)
(***************************************************************************)

\* C1: with maxIterations = 10 and a Reflector that always answers shouldContinue = true,
\* Agent.run is at phase done, and leaves its loop, once 10 phases have been executed.
\* (A run gets to 10 executed phases only when every reflection said to continue and
\* nothing threw.)
C1_DoneWithinMaxIterations ==
    (pc = "run" /\ iterations >= maxIterations) => phase = "done"

\* C2: whatever the gateway and the Reflector answer, Agent.run ends: it returns, unless a
\* collaborator threw.
C2_RunTerminates == <>(pc = "returned" \/ pc = "aborted")

\* C3: Generator.generate is invoked at most once in a run.
C3_GenerateAtMostOnce == invoked.generate <= 1

\* C4: a step makes at most maxReactIterations (20) gateway calls, and with the 20th its
\* loop is over, whatever the answers were.
C4_StepWithinCap ==
    /\ invoked.chat <= maxReactIterations
    /\ invoked.chat = maxReactIterations => pc # "react"

\* C4 witness: a step is over after 20 answers that all carried a tool call.
C4_Witness ==
    /\ pc = "execute"
    /\ invoked.chat = maxReactIterations
    /\ invoked.toolsEveryTurn
    /\ plan.steps[plan.currentStepIndex].status = "completed"

\* a step's status from one state to the next: as it was, begun by the Executor, or
\* completed at the end of its loop
StatusMove(i) ==
    LET before == plan.steps[i].status
        after == plan'.steps[i].status
    IN  \/ after = before
        \/ /\ before = "pending" /\ after = "in_progress"
           /\ pc = "execute" /\ pc' = "react" /\ i = plan.currentStepIndex + 1
        \/ /\ before = "in_progress" /\ after = "completed"
           /\ pc = "react" /\ pc' = "execute" /\ i = plan.currentStepIndex + 1

\* C5: a step is created pending and its status only moves pending -> in_progress (when
\* the Executor begins it) -> completed (when its loop ends, by a clean stop or at the
\* cap); no step becomes skipped or goes back.
C5_StatusLifecycle ==
    [][/\ (plan = NoPlan /\ plan' # NoPlan) =>
              \A i \in 1..Len(plan'.steps) : plan'.steps[i].status = "pending"
       /\ plan # NoPlan =>
              /\ Len(plan'.steps) >= Len(plan.steps)
              /\ \A i \in 1..Len(plan.steps) : StatusMove(i)
              /\ \A i \in (Len(plan.steps) + 1)..Len(plan'.steps) :
                     plan'.steps[i].status = "pending"
              /\ (pc = "execute" /\ pc' = "react") =>
                     plan'.steps[plan.currentStepIndex + 1].status = "in_progress"
              /\ (pc = "react" /\ pc' = "execute") =>
                     plan'.steps[plan.currentStepIndex + 1].status = "completed"]_vars

\* C5 witness: the second step has just been completed at the cap (20 answers, each with
\* a tool call), the first is completed and a later one is still pending.
C5_Witness ==
    /\ pc = "execute"
    /\ plan.currentStepIndex = 2
    /\ Len(plan.steps) > 2
    /\ invoked.chat = maxReactIterations /\ invoked.toolsEveryTurn
    /\ plan.steps[1].status = "completed" /\ plan.steps[2].status = "completed"
    /\ plan.steps[3].status = "pending"

\* C6: a call of adjustPlan (in reflectPhase) never shortens steps, leaves the id and the
\* status of every step already there as they were, and never moves the cursor back.
C6_AdjustPlanMonotone ==
    [][(pc = "run" /\ phase = "reflecting" /\ plan # NoPlan) =>
           /\ Len(plan'.steps) >= Len(plan.steps)
           /\ \A i \in 1..Len(plan.steps) :
                  /\ plan'.steps[i].id = plan.steps[i].id
                  /\ plan'.steps[i].status = plan.steps[i].status
           /\ plan'.currentStepIndex >= plan.currentStepIndex]_vars

\* C6 witness: a second call of adjustPlan has appended steps to a plan with completed ones.
C6_Witness ==
    /\ pc = "count" /\ phase = "executing"
    /\ invoked.reflect >= 2
    /\ reflection # NoReflection /\ ShouldContinue(reflection)
    /\ Len(reflection.missingAreas) >= 1
    /\ plan.currentStepIndex >= 2
    /\ plan.currentStepIndex < Len(plan.steps)

\* C7: adjustPlan appends exactly min(3, |missingAreas|) steps, one for each of the first
\* three missing areas in their order, each pending, with action "Analyze <area>" and the
\* area as target.
C7_AdjustPlanAppends ==
    [][(pc = "run" /\ phase = "reflecting" /\ phase' = "executing") =>
           LET areas == reflection'.missingAreas
               n == Min(3, Len(areas))
               old == Len(plan.steps)
           IN  /\ Len(plan'.steps) = old + n
               /\ SubSeq(plan'.steps, 1, old) = plan.steps
               /\ \A k \in 1..n :
                      /\ plan'.steps[old + k].status = "pending"
                      /\ plan'.steps[old + k].action = <<"Analyze", areas[k]>>
                      /\ plan'.steps[old + k].target = areas[k]]_vars

\* C7 witness: a reflection with more than 3 missing areas has been used; the plan ends
\* with the 3 new steps, the cursor at the first of them.
C7_Witness ==
    /\ pc = "count" /\ phase = "executing"
    /\ reflection # NoReflection /\ ShouldContinue(reflection)
    /\ Len(reflection.missingAreas) > 3
    /\ Len(plan.steps) >= 4
    /\ plan.currentStepIndex = Len(plan.steps) - 3
    /\ plan.steps[Len(plan.steps)].target = reflection.missingAreas[3]

\* the texts of one JSON object
ObjectTexts == {<<"{", "}">>, <<"{", "body", "}">>}

\* no stretch of the text is a JSON object (non-JSON text, truncated or malformed JSON)
HoldsNoObject(text) ==
    ~\E i, j \in 1..Len(text) : i <= j /\ SubSeq(text, i, j) \in ObjectTexts

\* an object's text that breaks off before its closing brace, prose before it or not
TruncatedObject(text) ==
    \E k \in 0..Len(text) :
        /\ \A i \in 1..k : text[i] = "txt"
        /\ SubSeq(text, k + 1, Len(text)) \in {<<"{">>, <<"{", "cut">>, <<"{", "body">>}

\* the gateway content is null or empty, or its text holds no JSON object
Unparseable(content) == ~HasContent(content) \/ HoldsNoObject(content.text)

\* C8: when the gateway content is null, non-JSON text or truncated JSON, reflect returns
\* the default verdict (isComplete, completeness 70, no missing areas, not shouldContinue)
\* and reflectPhase moves to generating.
C8_ReflectionFallback ==
    (reflection # NoReflection /\ Unparseable(response)) =>
        /\ reflection.fields = VerdictKeys
        /\ reflection.isComplete = TRUE
        /\ reflection.completeness = 70
        /\ reflection.missingAreas = <<>>
        /\ reflection.shouldContinue = FALSE
        /\ pc = "count"
        /\ phase = "generating"

\* C8 witness: reflectPhase has got truncated JSON and kept the default verdict.
C8_Witness ==
    /\ reflection # NoReflection
    /\ HasContent(response) /\ TruncatedObject(response.text)
    /\ reflection.completeness = 70 /\ ~reflection.shouldContinue
    /\ phase = "generating"

\* C9: when the Planner's gateway content is empty or holds no JSON object (none at all,
\* or malformed), the run is aborted in planning: no plan is stored, directoryStructure
\* is unset, Executor, Reflector and Generator have not been invoked, and never will be.
C9_PlanningFailureAborts ==
    /\ []((invoked.reflect = 0 /\ response # NoResponse /\ Unparseable(response)) =>
              /\ pc = "aborted" /\ error = "planning" /\ phase = "planning"
              /\ plan = NoPlan
              /\ memory.directoryStructure = <<>>
              /\ invoked.execute = 0 /\ invoked.generate = 0)
    /\ [][error = "planning" => UNCHANGED vars]_vars

\* C9 witness: the run was aborted on a Planner answer of malformed JSON.
C9_Witness ==
    /\ pc = "aborted" /\ error = "planning"
    /\ response # NoResponse /\ HasContent(response)
    /\ response.text = <<"{", "cut", "}">>
    /\ plan = NoPlan

\* C10: when the gateway fails during an Executor step the failure leaves Agent.run: the
\* phase stays executing (never done) and nothing is done afterwards - no further step,
\* no reflection, no generation.
C10_ExecutorFailureAborts ==
    /\ [](error = "execution" => (pc = "aborted" /\ phase = "executing"))
    /\ [][error = "execution" => UNCHANGED vars]_vars

\* C10 witness: the gateway failed at the third call of the first step, with a later step
\* still pending.
C10_Witness ==
    /\ pc = "aborted" /\ error = "execution"
    /\ invoked.chat = 3
    /\ plan.currentStepIndex = 0
    /\ Len(plan.steps) >= 2
    /\ plan.steps[1].status = "in_progress"
    /\ plan.steps[2].status = "pending"
    /\ invoked.reflect = 0 /\ invoked.generate = 0

\* the messages the step from this state to the next has pushed
Pushed == SubSeq(messages', Len(messages) + 1, Len(messages'))

\* a call ToolRegistry.execute answers with success = false: the name is not registered,
\* the tool faults on null arguments, or the file system fails the read
ToolFails(call) ==
    \/ call.name \notin {"list_files", "read_file", "search_code", "write_doc", "add_insight",
                         "mark_file_analyzed"}
    \/ call.arguments = [null |-> TRUE]
    \/ call.name = "read_file" /\ call.arguments.path \notin {"a.ts", "b.ts"}

\* a pass of executeStep's loop whose gateway answer carried these tool calls
TurnWith(calls) ==
    /\ pc = "react"
    /\ Len(messages') > Len(messages)
    /\ Pushed[1].role = "assistant"
    /\ Pushed[1].tool_calls = calls
    /\ Len(calls) > 0

\* C11: a tool failure never aborts a step or the run: for every tool call of a turn that
\* fails (unknown name, fault inside the tool, failed read) the Executor appends a tool
\* message "Error: <message>" with the call's id, the run is not aborted, and the loop
\* goes on with the next gateway call (or ends at the cap).
C11_ToolFailureContinues ==
    [][\A calls \in {messages'[i].tool_calls : i \in 1..Len(messages')} :
           (TurnWith(calls) /\ \E i \in 1..Len(calls) : ToolFails(calls[i])) =>
               /\ pc' # "aborted"
               /\ error' = "none"
               /\ Len(Pushed) = 1 + Len(calls)
               /\ \A i \in 1..Len(calls) :
                      ToolFails(calls[i]) =>
                          /\ Pushed[i + 1].role = "tool"
                          /\ Pushed[i + 1].tool_call_id = calls[i].id
                          /\ Pushed[i + 1].content.observation[1] = "Error: "
               /\ pc' = IF reactIterations' < maxReactIterations THEN "react" ELSE "execute"]_vars

\* C12: within a run the Knowledge Store never shrinks: no step of the run lowers the
\* number of analyzedFiles, documentSections or insights, and every section and insight
\* already stored is still there afterwards.
C12_MemoryNeverShrinks ==
    [][/\ Len(memory'.analyzedFiles) >= Len(memory.analyzedFiles)
       /\ Len(memory'.documentSections) >= Len(memory.documentSections)
       /\ Len(memory'.insights) >= Len(memory.insights)
       /\ \A i \in 1..Len(memory.documentSections) :
              memory'.documentSections[i] = memory.documentSections[i]
       /\ \A i \in 1..Len(memory.insights) :
              memory'.insights[i] = memory.insights[i]]_vars

\* C12 witness: the run has returned after tool calls stored a section and two insights,
\* and a reflection has sent it back to executing once.
C12_Witness ==
    /\ pc = "returned"
    /\ invoked.reflect = 2
    /\ Len(memory.documentSections) = 1
    /\ Len(memory.insights) = 2

\* C13: addInsight is idempotent: the insights hold no two equal strings, and adding a
\* string that is already there leaves the list as it is.
C13_AddInsightIdempotent ==
    /\ \A i, j \in 1..Len(memory.insights) :
           i # j => memory.insights[i] # memory.insights[j]
    /\ \A text \in {memory.insights[i] : i \in 1..Len(memory.insights)} :
           addInsight(memory, text).insights = memory.insights

\* C13 witness: both insights are stored, so every further addInsight call re-adds one.
C13_Witness ==
    /\ summary = NoSummary
    /\ memory.insights = <<"no tests", "uses plugins">>
    /\ memory.documentSections = <<>>

\* C14: the order of a section is the number of sections of its category stored before
\* it, so the N sections of one category carry 0, 1, ..., N-1 in insertion order,
\* however the sections of other categories lie between them.
C14_OrderPerCategory ==
    \A i \in 1..Len(memory.documentSections) :
        memory.documentSections[i].order =
            Cardinality({j \in 1..(i - 1) : memory.documentSections[j].category =
                                                memory.documentSections[i].category})

\* C14 witness: four sections, of two categories in turn.
C14_Witness ==
    /\ Len(memory.documentSections) = 4
    /\ memory.documentSections[1].category = "api"
    /\ memory.documentSections[2].category = "module"
    /\ memory.documentSections[3].category = "api"
    /\ memory.documentSections[4].category = "module"
    /\ memory.documentSections[3].order = 1
    /\ memory.documentSections[4].order = 1

PlanCreated == plan # NoPlan /\ response # NoResponse /\ invoked.execute = 0

\* C16: the plan createPlan returns has every step pending (whatever status the model
\* supplied), the cursor at 0, and as steps the model's steps in order, cut to the first
\* 8 when the model returned more.
C16_CreatePlanResult ==
    PlanCreated =>
        LET supplied == response.data.steps IN
        /\ plan.currentStepIndex = 0
        /\ Len(plan.steps) = Min(8, Len(supplied))
        /\ \A i \in 1..Len(plan.steps) :
               /\ plan.steps[i].status = "pending"
               /\ plan.steps[i].id = supplied[i].id
               /\ plan.steps[i].action = supplied[i].action
               /\ plan.steps[i].target = supplied[i].target
               /\ plan.steps[i].reason = supplied[i].reason

\* C16 witness: the model returned 9 steps and the plan holds the first 8.
C16_Witness ==
    /\ PlanCreated
    /\ pc = "count"
    /\ Len(response.data.steps) = 9
    /\ Len(plan.steps) = 8
    /\ plan.steps[8].id = 8

\* C17: the ids of a plan's steps are positive and strictly increase with the position
\* (so they are unique), for the steps of createPlan and those adjustPlan appends,
\* whatever ids the model supplied.
C17_StepIdsIncrease ==
    plan # NoPlan =>
        /\ \A i \in 1..Len(plan.steps) : plan.steps[i].id > 0
        /\ \A i, j \in 1..Len(plan.steps) : i < j => plan.steps[i].id < plan.steps[j].id

\* the conversation of a step whose one gateway answer carried no tool call
NominalConversation ==
    /\ Len(messages) <= 2
    /\ \A i \in 1..Len(messages) : messages[i].tool_calls = <<>>

\* the step of a one-step plan is over after one gateway answer without tool calls
\* (the loop has ended below its cap, so the answer's finishReason was stop)
NominalStepDone ==
    /\ pc = "execute"
    /\ Len(plan.steps) = 1
    /\ invoked.chat = 1
    /\ NominalConversation

\* the step of a one-step plan is completed and the cursor is behind it
OneStepCompleted ==
    /\ plan.steps[1].status = "completed"
    /\ plan.currentStepIndex = 1

\* C18: the nominal run: with a one-step plan, a gateway that answers the step with stop
\* and no tool calls, and a reflection with shouldContinue = false, the step ends
\* completed with the cursor at 1, and the phase goes through exactly planning,
\* executing, reflecting, generating, done.
C18_NominalRun ==
    /\ NominalStepDone => OneStepCompleted
    /\ (/\ pc = "count"
        /\ reflection # NoReflection
        /\ ~ShouldContinue(reflection)
        /\ invoked.reflect = 1
        /\ Len(plan.steps) = 1) =>
           /\ visited = <<"planning", "executing", "reflecting", "generating">>
           /\ OneStepCompleted
    /\ (/\ pc = "returned"
        /\ invoked.execute = 1
        /\ Len(plan.steps) = 1) =>
           /\ visited = <<"planning", "executing", "reflecting", "generating", "done">>
           /\ phase = "done"
           /\ iterations = 4
           /\ OneStepCompleted

\* C18 witness: the nominal run has returned; no tool call has touched the memory.
C18_Witness ==
    /\ pc = "returned"
    /\ Len(plan.steps) = 1
    /\ visited = <<"planning", "executing", "reflecting", "generating", "done">>
    /\ memory.insights = <<>>
    /\ memory.documentSections = <<>>
    /\ memory.analyzedFiles = <<>>

\* the phase changes of the coordinator's state machine
PhaseEdges ==
    {<<"planning", "executing">>, <<"executing", "reflecting">>, <<"reflecting", "executing">>,
     <<"reflecting", "generating">>, <<"generating", "done">>}

\* C19: the phase changes only along planning->executing, executing->reflecting,
\* reflecting->executing, reflecting->generating, generating->done, or by the forced
\* jump to generating once the iteration counter has reached maxIterations; planning is
\* never entered again and no phase follows done.
C19_PhaseTransitions ==
    [][phase' # phase =>
           /\ \/ <<phase, phase'>> \in PhaseEdges
              \/ phase' = "generating" /\ iterations' >= maxIterations
           /\ phase' # "planning"
           /\ phase # "done"]_vars

\* C20: a pass of the step's loop below the 20-iteration cap ends the loop exactly when
\* its gateway answer has finishReason stop and no tool call; an answer with stop and
\* tool calls, or one without tool calls and another finishReason, does not end it: the
\* loop goes on with the next pass.
C20_LoopExit ==
    [][pc = "react" =>
           \A resp \in StepResponses :
               (executeStep(resp) /\ reactIterations' < 20) =>
                   /\ pc' = "execute" <=>
                          (resp.finishReason = "stop" /\ Len(resp.toolCalls) = 0)
                   /\ pc' # "execute" => pc' = "react"]_vars

\* C20 witness: a step has ended at its fifth gateway call, below the cap; the four
\* answers before it, some of them without a tool call, did not end it.
C20_Witness ==
    /\ pc = "execute"
    /\ invoked.chat = 5
    /\ ~invoked.toolsEveryTurn
    /\ plan.currentStepIndex = 1
    /\ plan.steps[1].status = "completed"
    /\ memory.insights # <<>>

\* C21: after a reflection the coordinator calls adjustPlan and goes back to executing
\* exactly when the verdict's shouldContinue is true and a plan exists, and goes to
\* generating otherwise; isComplete and completeness have no part in the branch.
C21_ReflectBranch ==
    [][(pc = "run" /\ phase = "reflecting" /\ reflection' # NoReflection) =>
           IF ShouldContinue(reflection') /\ plan # NoPlan
           THEN /\ phase' = "executing"
                /\ plan' = adjustPlan(plan, reflection'.missingAreas)
           ELSE /\ phase' = "generating"
                /\ plan' = plan]_vars

\* C22: over a whole run the cursor never decreases, and every step is entered (set
\* in_progress and run through executeStep's loop) at most once and in increasing index
\* order, the calls of adjustPlan between executing phases included: a step is entered
\* only while pending, when every step before it is completed and no step after it has
\* been entered, and a step that has left pending never is pending again.
C22_CursorAndEntry ==
    [][(plan # NoPlan /\ plan' # NoPlan) =>
           /\ plan'.currentStepIndex >= plan.currentStepIndex
           /\ \A j \in 1..Len(plan.steps) :
                  /\ plan.steps[j].status # "pending" => plan'.steps[j].status # "pending"
                  /\ (plan.steps[j].status # "in_progress"
                          /\ plan'.steps[j].status = "in_progress") =>
                         (pc = "execute" /\ pc' = "react" /\ j = plan.currentStepIndex + 1)
           /\ (pc = "execute" /\ pc' = "react") =>
                  LET i == plan.currentStepIndex + 1 IN
                  /\ plan'.currentStepIndex = plan.currentStepIndex
                  /\ plan.steps[i].status = "pending"
                  /\ plan'.steps[i].status = "in_progress"
                  /\ \A j \in 1..(i - 1) : plan.steps[j].status = "completed"
                  /\ \A j \in (i + 1)..Len(plan.steps) : plan.steps[j].status = "pending"]_vars

\* C22 witness: after two calls of adjustPlan the Executor has entered a step the second
\* call appended; the steps before it are completed, one after it is pending.
C22_Witness ==
    /\ pc = "react"
    /\ invoked.reflect = 2
    /\ plan.currentStepIndex >= 3
    /\ plan.currentStepIndex + 1 < Len(plan.steps)
    /\ CurrentStep.status = "in_progress"
    /\ CurrentStep.reason = "Identified as missing in reflection"
    /\ plan.steps[plan.currentStepIndex].reason = "Identified as missing in reflection"

\* what a gateway turn with these tool calls (in calls) and this content has appended
AppendedFor(content, calls) ==
    IF Len(calls) >= 1
    THEN /\ Len(Pushed) = 1 + Len(calls)
         /\ Pushed[1].role = "assistant"
         /\ Pushed[1].tool_calls = calls
         /\ \A i \in 1..Len(calls) :
                /\ Pushed[i + 1].role = "tool"
                /\ Pushed[i + 1].tool_call_id = calls[i].id
    ELSE IF content # [null |-> TRUE] /\ content.text # <<>>
         THEN /\ Len(Pushed) = 1
              /\ Pushed[1].role = "assistant"
              /\ Pushed[1].content = content
              /\ Pushed[1].tool_calls = <<>>
         ELSE Pushed = <<>>

\* C23: within one step's conversation, a gateway turn (a call of chat that returned its
\* answer, the argument texts decoded) with n >= 1 tool calls appends one
\* assistant message and then exactly n tool messages whose tool_call_id are the ids of
\* the turn's calls in order; a turn without tool calls appends one assistant message if
\* it has content and nothing otherwise; the messages already there stay as they are.
C23_TurnAppends ==
    [][pc = "react" =>
           /\ Len(messages') >= Len(messages)
           /\ SubSeq(messages', 1, Len(messages)) = messages
           /\ \A resp \in ConversingResponses :
                  (/\ executeStepConversing(resp)
                   /\ \A i \in 1..Len(resp.toolCalls) :
                          resp.toolCalls[i].arguments # [invalid |-> TRUE]) =>
                      AppendedFor(resp.content, resp.toolCalls)]_vars

\* a ReflectionResult with every member there and of its type
WellFormedVerdict(r) ==
    /\ r.fields = {"isComplete", "completeness", "missingAreas", "suggestions", "shouldContinue"}
    /\ r.isComplete \in BOOLEAN
    /\ r.completeness \in 0..100
    /\ r.shouldContinue \in BOOLEAN
    /\ \A i \in 1..Len(r.missingAreas) : r.missingAreas[i] \in STRING
    /\ \A i \in 1..Len(r.suggestions) : r.suggestions[i] \in STRING

\* C24: whatever the gateway answers, the ReflectionResult reflect returns is well-formed:
\* completeness an integer in 0..100, missingAreas and suggestions lists, isComplete and
\* shouldContinue booleans; an answer that yields no such value gives the default verdict.
C24_VerdictWellFormed ==
    reflection # NoReflection => WellFormedVerdict(reflection)

\* C25: the Planner and the Reflector parse the first brace-delimited JSON object of the
\* answer and tolerate the text around it: an answer made of any text (text with braces
\* included), one valid JSON object and any text again is parsed to that object - the
\* plan has the object's overview, focus areas and steps, the verdict is the object.
C25_WrapperTolerated ==
    /\ (invoked.createPlan > 0 /\ "steps" \in response.data.fields) =>
           /\ plan # NoPlan
           /\ error = "none"
           /\ plan.overview = response.data.overview
           /\ plan.focusAreas = response.data.focusAreas
           /\ Len(plan.steps) = Len(response.data.steps)
           /\ \A i \in 1..Len(plan.steps) : plan.steps[i].id = response.data.steps[i].id
    /\ (invoked.reflect > 0 /\ "shouldContinue" \in response.data.fields) =>
           reflection = response.data

\* the entries one part of a summary spells out under its heading
PartSize(part) ==
    IF "understanding" \in DOMAIN part THEN Len(part.understanding)
    ELSE IF "fileList" \in DOMAIN part THEN Len(part.fileList)
    ELSE IF "keyInsights" \in DOMAIN part THEN Len(part.keyInsights)
    ELSE IF "generatedSections" \in DOMAIN part THEN Len(part.generatedSections)
    ELSE IF "directoryStructure" \in DOMAIN part THEN 1
    ELSE 0

\* the size of a summary: the entries of its parts, the headings left out
RECURSIVE SummarySize(_)
SummarySize(s) == IF s = <<>> THEN 0 ELSE PartSize(Head(s)) + SummarySize(Tail(s))

\* C26: the summary getSummary returns is bounded: its size has a fixed upper limit, here
\* 8 entries, that the analyzed files, insights, sections and understanding accumulated
\* do not push up.
C26_SummaryBounded == summary # NoSummary => SummarySize(summary) <= 8

\* the positions of analyzedFiles that hold this path
PositionsOf(files, path) == {i \in 1..Len(files) : files[i].path = path}

\* C27: markFileAnalyzed is an upsert keyed by path: analyzedFiles never holds two entries
\* of one path; a call for a path already there replaces that entry where it is, the
\* list keeping its length and its other entries, and a call for a new path appends the
\* record; no other method touches the list, so the entry of a path is the last record
\* written for it.
C27_MarkFileUpsert ==
    /\ [](\A path \in {"a.ts", "b.ts"} :
              Cardinality(PositionsOf(memory.analyzedFiles, path)) <= 1)
    /\ [][/\ \A file \in FileInputs :
                 callMarkFileAnalyzed(file) =>
                     LET old == memory.analyzedFiles
                         at == PositionsOf(old, file.path)
                     IN  IF at # {}
                         THEN /\ Len(memory'.analyzedFiles) = Len(old)
                              /\ \A i \in 1..Len(old) :
                                     memory'.analyzedFiles[i] = IF i \in at THEN file ELSE old[i]
                         ELSE memory'.analyzedFiles = Append(old, file)
          /\ memory'.analyzedFiles # memory.analyzedFiles =>
                 \E file \in FileInputs : callMarkFileAnalyzed(file)]_vars

\* C27 witness: both paths are analyzed, b.ts first, so every further call of
\* markFileAnalyzed re-marks a path that is there.
C27_Witness ==
    /\ Len(memory.analyzedFiles) = 2
    /\ memory.analyzedFiles[1] = [path |-> "b.ts", summary |-> "entry"]
    /\ memory.analyzedFiles[2] = [path |-> "a.ts", summary |-> "cli"]

\* C28: the id of every section is "<category>-<number of sections stored before it>",
\* so the ids are pairwise distinct, and a later insertion changes no section already
\* stored: its id, its place and its content stay.
C28_SectionIds ==
    /\ [](\A i \in 1..Len(memory.documentSections) :
              memory.documentSections[i].id = <<memory.documentSections[i].category, i - 1>>)
    /\ [](\A i, j \in 1..Len(memory.documentSections) :
              i # j => memory.documentSections[i].id # memory.documentSections[j].id)
    /\ [][/\ Len(memory'.documentSections) >= Len(memory.documentSections)
          /\ \A i \in 1..Len(memory.documentSections) :
                 memory'.documentSections[i] = memory.documentSections[i]]_vars

\* C28 witness: four sections, three of one category around one of another; the ids
\* count all the sections before, whatever their category.
C28_Witness ==
    /\ Len(memory.documentSections) = 4
    /\ memory.documentSections[1].id = <<"api", 0>>
    /\ memory.documentSections[2].id = <<"api", 1>>
    /\ memory.documentSections[3].id = <<"module", 2>>
    /\ memory.documentSections[4].id = <<"api", 3>>
    /\ memory.documentSections[4].order = 2

\* C29: the memory is written only in the planning phase (directoryStructure and nothing
\* else) and in the executing phase (by the tool calls of a step, which leave
\* directoryStructure alone); the reflecting and generating phases change no field of
\* it, and once the coordinator is at generating it stays at generating or done, so
\* what the Generator is given is not changed afterwards.
C29_MemoryFrame ==
    [][/\ memory' # memory =>
              \/ /\ phase = "planning" /\ pc = "run"
                 /\ memory' = [memory EXCEPT !.directoryStructure = memory'.directoryStructure]
              \/ /\ phase = "executing" /\ pc = "react"
                 /\ memory'.directoryStructure = memory.directoryStructure
       /\ phase \in {"reflecting", "generating", "done"} => memory' = memory
       /\ phase \in {"generating", "done"} => phase' \in {"generating", "done"}]_vars

\* C29 witness: the run has returned after two reflections and a generation, with the
\* structure of planning and an insight of a tool call in the memory.
C29_Witness ==
    /\ pc = "returned"
    /\ invoked.reflect = 2
    /\ invoked.generate = 1
    /\ memory.directoryStructure = <<"X">>
    /\ memory.insights = <<"uses plugins">>

\* C30: directoryStructure is set once in a run, to the overview of the plan, in the
\* planning phase and before any step executes: it is unset while there is no plan and
\* holds the plan's overview from the moment the plan is stored; createPlan is called at
\* most once; the field changes only in planPhase, from unset, before the Executor has
\* been called, and no later phase changes it.
C30_DirectoryStructureOnce ==
    /\ [](plan = NoPlan => memory.directoryStructure = <<>>)
    /\ [](plan # NoPlan => memory.directoryStructure = <<plan.overview>>)
    /\ [](invoked.createPlan <= 1)
    /\ [](invoked.execute > 0 => memory.directoryStructure # <<>>)
    /\ [][memory'.directoryStructure # memory.directoryStructure =>
              /\ pc = "run" /\ phase = "planning"
              /\ memory.directoryStructure = <<>>
              /\ invoked.createPlan = 0 /\ invoked.execute = 0]_vars

\* C30 witness: the run has returned after the Executor ran twice and a step stored an
\* insight; directoryStructure is still the overview planning put there.
C30_Witness ==
    /\ pc = "returned"
    /\ invoked.execute = 2
    /\ plan.overview = "X"
    /\ memory.directoryStructure = <<"X">>
    /\ memory.insights # <<>>
    /\ plan.currentStepIndex = Len(plan.steps)

\* C31: a tool call whose argument text is not valid JSON is fatal for that gateway call:
\* chat throws while it decodes the answer, so no message (no assistant message, no
\* Error observation) is appended, no tool of the turn runs, the step is not completed
\* and the error leaves the step and aborts the run, after which nothing happens.
C31_InvalidArgumentsFatal ==
    /\ [][pc = "react" =>
              \A resp \in ConversingResponses :
                  (/\ executeStepConversing(resp)
                   /\ \E i \in 1..Len(resp.toolCalls) :
                          resp.toolCalls[i].arguments = [invalid |-> TRUE]) =>
                      /\ pc' = "aborted"
                      /\ error' = "execution"
                      /\ messages' = messages
                      /\ memory' = memory
                      /\ plan' = plan
                      /\ phase' = "executing"]_vars
    /\ [][pc = "aborted" => UNCHANGED vars]_vars

\* C31 witness: the run was aborted by the second gateway call of a step: the first turn
\* left its assistant and tool message, the second, whose argument text was not JSON,
\* left nothing.
C31_Witness ==
    /\ pc = "aborted" /\ error = "execution"
    /\ invoked.chat = 2
    /\ Len(messages) = 3
    /\ messages[2].role = "assistant"
    /\ messages[3].role = "tool"
    /\ CurrentStep.status = "in_progress"

\* C32: the order of the state files: while a step runs, from before its first gateway
\* call on, plan.md shows the plan with this step in_progress; when the step completes,
\* plan.md showing it completed and memory.json equal to the memory of that moment are
\* written with it; and when the next step begins both are still what is on disk, the
\* snapshot equal to the memory the step starts from.
C32_StateFilesOrder ==
    /\ [](pc = "react" =>
              /\ stateDir.plan.steps = plan.steps
              /\ stateDir.plan.steps[plan.currentStepIndex + 1].status = "in_progress")
    /\ [][(pc = "react" /\ pc' = "execute") =>
              /\ stateDir'.plan.steps = plan'.steps
              /\ stateDir'.plan.steps[plan.currentStepIndex + 1].status = "completed"
              /\ stateDir'.memory = memory']_vars
    /\ [][(pc = "execute" /\ pc' = "react" /\ plan.currentStepIndex > 0) =>
              /\ stateDir.plan.steps[plan.currentStepIndex].status = "completed"
              /\ stateDir.memory = memory]_vars

\* C32 witness: the second step has begun and made no gateway call yet; plan.md shows the
\* first step completed and the second in_progress, memory.json holds the section and
\* the insight the first step stored.
C32_Witness ==
    /\ pc = "react"
    /\ plan.currentStepIndex = 1
    /\ invoked.chat = 0
    /\ stateDir.plan.steps[1].status = "completed"
    /\ stateDir.plan.steps[2].status = "in_progress"
    /\ stateDir.memory = memory
    /\ Len(memory.documentSections) = 1
    /\ Len(memory.insights) = 1

\* the coordinator is in an executing phase whose plan has nothing left to do: the
\* cursor is at the list length
NothingPending ==
    /\ phase = "executing"
    /\ pc \in {"run", "execute"}
    /\ plan # NoPlan
    /\ plan.currentStepIndex = Len(plan.steps)

\* C33: when a reflection has shouldContinue = true and an empty missingAreas list,
\* adjustPlan appends nothing and leaves the cursor at the list length; the executing
\* phase that follows makes no gateway call and changes neither the plan nor the memory,
\* and yet the coordinator counts it: it ends at reflecting, one iteration later.
C33_EmptyContinuation ==
    /\ [][(/\ pc = "run" /\ phase = "reflecting"
           /\ reflection' # NoReflection
           /\ "shouldContinue" \in reflection'.fields /\ reflection'.shouldContinue
           /\ "missingAreas" \in reflection'.fields /\ reflection'.missingAreas = <<>>) =>
              /\ plan' = plan
              /\ plan'.currentStepIndex = Len(plan'.steps)
              /\ phase' = "executing"]_vars
    /\ [][NothingPending =>
              /\ plan' = plan
              /\ memory' = memory
              /\ pc' \in {"execute", "count"}
              /\ pc' = "count" => phase' = "reflecting"]_vars
    /\ [][(pc = "count" /\ phase = "reflecting") =>
              iterations' = IF iterations < MaxCount THEN iterations + 1 ELSE iterations]_vars

\* C33 witness: the third executing phase in a row that had nothing to do has ended:
\* the plan's one step was completed in the first, two reflections asked to continue
\* with no missing area, and six iterations are counted.
C33_Witness ==
    /\ pc = "run" /\ phase = "reflecting"
    /\ invoked.execute = 3
    /\ invoked.reflect = 2
    /\ Len(plan.steps) = 1
    /\ plan.currentStepIndex = 1
    /\ iterations = 6

\* C34: in every reachable state of a run the steps below the cursor are completed, the
\* steps above it are pending, and a step that is in_progress is the step at the cursor
\* (so at most one is); when Executor.execute has returned normally the cursor is the
\* number of steps and no step is pending or in_progress.
C34_CursorPartition ==
    plan # NoPlan =>
        /\ plan.currentStepIndex \in 0..Len(plan.steps)
        /\ \A i \in 1..Len(plan.steps) :
               /\ i < plan.currentStepIndex + 1 => plan.steps[i].status = "completed"
               /\ i > plan.currentStepIndex + 1 => plan.steps[i].status = "pending"
               /\ plan.steps[i].status = "in_progress" => i = plan.currentStepIndex + 1
        /\ (phase = "reflecting" /\ pc \in {"count", "run"}) =>
               /\ plan.currentStepIndex = Len(plan.steps)
               /\ \A i \in 1..Len(plan.steps) : plan.steps[i].status = "completed"

\* C34 witness: a step appended by adjustPlan is in_progress at the cursor, between five
\* completed steps and two pending ones.
C34_Witness ==
    /\ pc = "react"
    /\ plan.currentStepIndex = 5
    /\ Len(plan.steps) = 8
    /\ plan.steps[6].status = "in_progress"
    /\ plan.steps[6].reason = "Identified as missing in reflection"
    /\ plan.steps[5].status = "completed"
    /\ plan.steps[7].status = "pending"
    /\ plan.steps[8].status = "pending"

\* C35: whenever the Generator is invoked every step of the plan is completed: neither a
\* reflection that decides to generate nor the forced jump at 10 iterations starts the
\* generation while a step, one appended by adjustPlan included, is still pending.
C35_GenerateOnCompletedPlan ==
    /\ [](invoked.generate > 0 =>
              /\ plan # NoPlan
              /\ \A i \in 1..Len(plan.steps) : plan.steps[i].status = "completed")
    /\ []((pc = "run" /\ phase = "generating") =>
              /\ plan # NoPlan
              /\ \A i \in 1..Len(plan.steps) : plan.steps[i].status = "completed")

\* C35 witness: the Generator has been invoked after the forced jump: four reflections
\* asked to continue, the tenth iteration was the executing phase that completed the
\* steps the fourth appended, and no reflection decided to generate.
C35_Witness ==
    /\ invoked.generate = 1
    /\ invoked.reflect = 4
    /\ invoked.execute = 5
    /\ iterations >= 10
    /\ Len(plan.steps) >= 5
    /\ plan.steps[Len(plan.steps)].reason = "Identified as missing in reflection"
    /\ plan.steps[Len(plan.steps)].status = "completed"

\* C36: in any run the plan never holds more than 20 steps: at most 8 from createPlan
\* and at most 3 from each call of adjustPlan, of which there are at most 4 before the
\* iteration counter reaches 10.
C36_PlanAtMostTwentySteps ==
    /\ invoked.reflect <= 4
    /\ plan # NoPlan =>
           /\ Len(plan.steps) <= 8 + 3 * invoked.reflect
           /\ Len(plan.steps) <= 20

\* C36 witness: a plan of 20 steps: 8 of createPlan and 3 of each of 4 adjustPlan calls.
C36_Witness ==
    /\ plan # NoPlan
    /\ Len(plan.steps) = 20
    /\ invoked.reflect = 4
    /\ plan.steps[8].reason = "core module"
    /\ plan.steps[9].reason = "Identified as missing in reflection"

\* C37: when the gateway fails in the middle of a step, the step is left in_progress
\* with the cursor on it; it is never marked completed, and the steps after it stay
\* pending.
C37_FailedStepLeftInProgress ==
    /\ [](error = "execution" =>
              /\ plan # NoPlan
              /\ plan.currentStepIndex < Len(plan.steps)
              /\ plan.steps[plan.currentStepIndex + 1].status = "in_progress"
              /\ \A i \in (plan.currentStepIndex + 2)..Len(plan.steps) :
                     plan.steps[i].status = "pending")
    /\ [][error' = "execution" => plan' = plan]_vars

\* C37 witness: the gateway failed at the first call of the second step: the first step
\* is completed, the second in_progress at the cursor, the third pending.
C37_Witness ==
    /\ error = "execution"
    /\ invoked.chat = 1
    /\ plan.currentStepIndex = 1
    /\ Len(plan.steps) >= 3
    /\ plan.steps[1].status = "completed"
    /\ plan.steps[2].status = "in_progress"
    /\ plan.steps[3].status = "pending"

\* C38: the executing phase never finds the plan missing: in every reachable state whose
\* phase is executing or reflecting the stored plan is not null, so the error "No plan
\* available for execution" is never raised and the plan-exists test of the reflect
\* branch is always true.
C38_PlanNeverMissing ==
    /\ phase \in {"executing", "reflecting"} => plan # NoPlan
    /\ error = "execution" => plan # NoPlan
    /\ phase # "planning" => plan # NoPlan

\* C38 witness: executePhase has found the plan a second time, after a reflection.
C38_Witness ==
    /\ phase = "executing"
    /\ pc = "execute"
    /\ invoked.execute = 2
    /\ invoked.reflect = 1
    /\ plan # NoPlan
    /\ plan.currentStepIndex < Len(plan.steps)

\* a call that runs write_doc, add_insight or mark_file_analyzed to its end: one of the
\* three names, with arguments that are an object
Writes(call) ==
    /\ call.name \in {"write_doc", "add_insight", "mark_file_analyzed"}
    /\ call.arguments # [null |-> TRUE]
    /\ call.arguments # [invalid |-> TRUE]

C40_UnderstandingStaysEmpty ==
    /\ memory.codebaseUnderstanding = <<>>
    /\ \A i \in 1..Len(getSummary(memory)) :
           "understanding" \notin DOMAIN getSummary(memory)[i]
    /\ \A k \in 1..Len(messages) :
           messages[k].role = "user" =>
               \A i \in 1..Len(messages[k].content.memory) :
                   "understanding" \notin DOMAIN messages[k].content.memory[i]
    /\ "codebaseUnderstanding" \in DOMAIN stateDir.memory =>
           stateDir.memory.codebaseUnderstanding = <<>>

\* C40 witness: a later step of the plan is conversing; insights, analyzed files and
\* sections are recorded, a memory snapshot is saved, and the step's prompt carries the
\* insights of the steps before it.
C40_Witness ==
    /\ pc = "react"
    /\ plan.currentStepIndex >= 1
    /\ memory.insights # <<>>
    /\ memory.analyzedFiles # <<>>
    /\ memory.documentSections # <<>>
    /\ "insights" \in DOMAIN stateDir.memory
    /\ Len(messages) > 0
    /\ \E i \in 1..Len(messages[1].content.memory) :
           "keyInsights" \in DOMAIN messages[1].content.memory[i]

====
